---- MODULE Spec2Model ----
(***************************************************************************)
(* A model of the mindgames online player:                                 *)
(*   - online_play_stage_2.py: main (signal handling, worker processes),   *)
(*     start_worker (the game loop of one track) and play_game (one game   *)
(*     session and its log file);                                          *)
(*   - agent.py: In2AIMindGamesAgent._run_request (the retry loop around   *)
(*     the completion endpoint).                                           *)
(* Optional values (Python's None) are sequences of length at most one:    *)
(* <<>> is None and <<v>> is the value v.                                  *)
(***************************************************************************)
EXTENDS Integers, Sequences, FiniteSets, TLC

VARIABLES
    \* ---- main() and the shared event
    tracks,                         \* the --tracks option
    processes,                      \* the workers main has started and kept
    max_games,                      \* the --max-games-per-track option
    stop_event,                     \* mp.Event shared with the workers
    termination_signals_received,   \* counter of handle_shutdown
    main_pc,                        \* "spawning" | "appending" | "joining" |
                                    \* "exited" | "forced_exit"
    now,                            \* the UTC clock, in ticks
    files,                          \* the log directory: path -> content
    \* ---- start_worker / play_game, one per track
    pc,                             \* position of each worker
    games_played,
    played_after_shutdown,
    start_time,                     \* game_evaluation_log.start_time
    timestamp,                      \* play_game's timestamp string
    \* ---- history of each worker (not program state)
    games_started,                  \* play_game calls begun (saturating)
    started_after_stop,             \* play_game calls begun with the flag set
    flag_game,                      \* fate of the game in flight at the signal
    last_outcome,                   \* how the latest play_game call ended
    stop_reason,                    \* which exit of the loop was taken
    \* ---- In2AIMindGamesAgent._run_request, one invocation
    rq_pc,                          \* position in _run_request
    attempt_index,
    last_exception,
    rq_returned,                    \* the response returned, if any
    rq_raised,                      \* the exception raised, if any
    agent_response,                 \* the AgentResponse of __call__, if any
    \* ---- history of the invocation (not program state)
    rq_calls,                       \* outcome of each completion call, in order
    rq_sleeps,                      \* for each sleep, the calls made before it
    rq_slept,                       \* seconds slept in all
    \* ---- the text functions of utils.py / prompt_utils.py, one call
    observation,                    \* the text the function is called with
    tx_pc,                          \* which function has been called
    tx_out,                         \* what the calls returned, in order
    \* ---- play_game, one session step by step
    gs_pc,                          \* position in play_game
    player_id,                      \* whose turn env.get_observation gave
    done,
    log_steps,                      \* game_evaluation_log.steps
    log_end,                        \* end_time, rewards and game_info
    log_file,                       \* the file at logs_jsonl_path
    \* ---- history of the session (not program state)
    env_turns,                      \* the player of each env.step that returned
    env_closed,                     \* env.close calls that returned
    log_writes,                     \* json.dump calls that returned
    raised_at                       \* where the session raised, if it did

mainVars == <<tracks, processes, max_games, stop_event, termination_signals_received,
              main_pc, now, files>>
workerVars == <<pc, games_played, played_after_shutdown, start_time,
                timestamp>>
historyVars == <<games_started, started_after_stop, flag_game, last_outcome,
                 stop_reason>>
reqVars == <<rq_pc, attempt_index, last_exception, rq_returned, rq_raised,
             agent_response,
             rq_calls, rq_sleeps, rq_slept>>
textVars == <<observation, tx_pc, tx_out>>
sessionVars == <<gs_pc, player_id, done, log_steps, log_end, log_file,
                 env_turns, env_closed, log_writes, raised_at>>
vars == <<mainVars, workerVars, historyVars, reqVars, textVars, sessionVars>>

----------------------------------------------------------------------------
\* Bounds of the model

\* longest text the normalizer is tried with, in characters
MaxChars == 6

\* most lines of an observation
MaxLines == 3

\* most turns of a session: the environment reports done at the latest
\* after MaxTurns steps
MaxTurns == 3

\* largest value of --max-games-per-track that is tried
MaxGamesLimit == 2
\* games a worker completes at most when no limit is configured
MaxPlayed == 2
\* the clock stops ticking here
MaxTicks == 2
\* the history counters saturate here
CountCap == 2
\* clock ticks per second: the clock is finer than the timestamp format
TicksPerSecond == 2

----------------------------------------------------------------------------
\* Values

None == <<>>
Some(v) == <<v>>

AllTracks == {"Generalization", "Social Detection"}

\* main, lines 154-160
SelectedTracks(t) == IF t = "All" THEN AllTracks ELSE {t}

Workers == SelectedTracks(tracks)

\* main, lines 154-160, in the order of the list
selected_tracks(t) ==
    IF t = "All" THEN <<"Generalization", "Social Detection">> ELSE <<t>>

\* parse_max_games_option: None or an integer > 0
MaxGamesOptions == {None} \cup {Some(n) : n \in 1..MaxGamesLimit}

\* The text of an exception is a sequence of words.
RegistrationPhrase == <<"Model", "registration", "failed">>

\* needle in haystack, for sequences of words (Python's `in` on str)
Contains(haystack, needle) ==
    \E i \in 0..(Len(haystack) - Len(needle)) :
        \A j \in 1..Len(needle) : haystack[i + j] = needle[j]

\* The exceptions a play_game call is tried with.
GameExceptions ==
    { [type |-> "ValueError",
       msg |-> <<"Model", "registration", "failed", "for", "team">>],
      [type |-> "ValueError",
       msg |-> <<"No", "completion", "found", "in", "the", "response">>],
      [type |-> "ValueError", msg |-> <<"registration", "failed">>],
      [type |-> "RuntimeError",
       msg |-> <<"Model", "registration", "failed">>],
      [type |-> "ConnectionError", msg |-> <<"timed", "out">>] }

IsRegistrationFailure(exc) ==
    exc.type = "ValueError" /\ Contains(exc.msg, RegistrationPhrase)

\* how a play_game call that raised is remembered
OutcomeOf(exc) ==
    IF IsRegistrationFailure(exc) THEN "registration_failure"
    ELSE IF exc.type = "ValueError" THEN "value_error"
    ELSE "exception"

Inc(c) == IF c < CountCap THEN c + 1 ELSE c

----------------------------------------------------------------------------
\* Pure parts of start_worker and play_game

\* Faulty variant of MaxGamesReached: the limit is tested with > instead of >=.
MaxGamesReachedStrict(limit, played) == limit # None /\ played > limit[1]

\* start_worker, line 253
MaxGamesReached(limit, played) == limit # None /\ played >= limit[1]

\* Faulty variant of LoopDecision: two games after the flag are waited for.
LoopDecisionTwoMore(limit, played, stop_set, after_shutdown) ==
    IF MaxGamesReached(limit, played) THEN "max_games"
    ELSE IF stop_set /\ after_shutdown >= 2 THEN "shutdown"
    ELSE "play"

\* start_worker, lines 253-265: what the top of the loop decides
LoopDecision(limit, played, stop_set, after_shutdown) ==
    IF MaxGamesReached(limit, played) THEN "max_games"
    ELSE IF stop_set /\ after_shutdown >= 1 THEN "shutdown"
    ELSE "play"

\* Faulty variant of OnException: the registration failure is logged and the loop
\* continues instead of breaking.
OnExceptionNoBreak(exc) ==
    IF exc.type = "ValueError"
    THEN IF Contains(exc.msg, RegistrationPhrase) THEN "continue" ELSE "raise"
    ELSE "continue"

\* start_worker, lines 279-286: what the handlers do with an exception
OnException(exc) ==
    IF exc.type = "ValueError"
    THEN IF Contains(exc.msg, RegistrationPhrase) THEN "break" ELSE "raise"
    ELSE "continue"

\* start_worker, lines 290-291
AfterShutdownCount(stop_set, after_shutdown) ==
    IF stop_set THEN after_shutdown + 1 ELSE after_shutdown

\* play_game, line 328: strftime("%Y%m%d_%H%M%S") drops the sub-second part
Strftime(tick) == tick \div TicksPerSecond

\* main, lines 149-150: one directory for every worker
LogsDirectoryPath(track) == "logs/public_model_name"

\* play_game, line 329
LogsJsonlPath(dir, ts) == <<dir, ts>>

Paths == { LogsJsonlPath(LogsDirectoryPath(t), Strftime(k)) :
             t \in AllTracks, k \in 0..(MaxTicks + 1) }

\* Process.is_alive
IsAlive(w) == pc[w] \in {"loop_top", "play_game", "playing"}

----------------------------------------------------------------------------
\* Initial state: main has parsed its options, created the event, installed
\* the signal handlers and started one worker per selected track.

InitSystem(trackOptions, maxGamesOptions) ==
    /\ tracks \in trackOptions
    /\ processes = selected_tracks(tracks)
    /\ max_games \in maxGamesOptions
    /\ stop_event = FALSE
    /\ termination_signals_received = 0
    /\ main_pc = "joining"
    /\ now = 0
    /\ files = [p \in Paths |-> None]
    /\ pc = [w \in AllTracks |-> IF w \in SelectedTracks(tracks)
                                 THEN "loop_top" ELSE "absent"]
    /\ games_played = [w \in AllTracks |-> 0]
    /\ played_after_shutdown = [w \in AllTracks |-> 0]
    /\ start_time = [w \in AllTracks |-> None]
    /\ timestamp = [w \in AllTracks |-> None]
    /\ games_started = [w \in AllTracks |-> 0]
    /\ started_after_stop = [w \in AllTracks |-> 0]
    /\ flag_game = [w \in AllTracks |-> "none"]
    /\ last_outcome = [w \in AllTracks |-> "none"]
    /\ stop_reason = [w \in AllTracks |-> "none"]

----------------------------------------------------------------------------
\* start_worker

\* lines 251-268: the checks at the top of the loop, then the call
LoopTop(w) ==
    /\ pc[w] = "loop_top"
    /\ LET d == LoopDecision(max_games, games_played[w], stop_event,
                             played_after_shutdown[w])
       IN IF d = "play"
          THEN /\ pc' = [pc EXCEPT ![w] = "play_game"]
               /\ games_started' = [games_started EXCEPT ![w] = Inc(@)]
               /\ started_after_stop' =
                    [started_after_stop EXCEPT
                       ![w] = IF stop_event THEN Inc(@) ELSE @]
               /\ UNCHANGED stop_reason
          ELSE /\ pc' = [pc EXCEPT ![w] = "stopped"]
               /\ stop_reason' = [stop_reason EXCEPT ![w] = d]
               /\ UNCHANGED <<games_started, started_after_stop>>
    /\ UNCHANGED <<mainVars, games_played, played_after_shutdown, start_time,
                   timestamp, flag_game, last_outcome, reqVars, textVars,
                   sessionVars>>

\* lines 279-286: an exception of play_game reaches the handlers
Raised(w, exc) ==
    /\ LET h == OnException(exc)
       IN /\ pc' = [pc EXCEPT ![w] = CASE h = "break" -> "stopped"
                                       [] h = "raise" -> "crashed"
                                       [] OTHER -> "loop_top"]
          /\ stop_reason' = [stop_reason EXCEPT
                               ![w] = CASE h = "break" -> "registration"
                                        [] h = "raise" -> "exception"
                                        [] OTHER -> @]
    /\ last_outcome' = [last_outcome EXCEPT ![w] = OutcomeOf(exc)]
    /\ flag_game' = [flag_game EXCEPT
                       ![w] = IF @ = "running" THEN "raised" ELSE @]
    /\ start_time' = [start_time EXCEPT ![w] = None]
    /\ timestamp' = [timestamp EXCEPT ![w] = None]
    /\ UNCHANGED <<games_played, played_after_shutdown, games_started,
                   started_after_stop>>

\* play_game, lines 305-329: agent and environment are made, the
\* environment is reset, the log and its path are made
PlayGameSetup(w) ==
    /\ pc[w] = "play_game"
    /\ \/ /\ pc' = [pc EXCEPT ![w] = "playing"]
          /\ start_time' = [start_time EXCEPT ![w] = Some(now)]
          /\ timestamp' = [timestamp EXCEPT ![w] = Some(Strftime(now))]
          /\ UNCHANGED <<games_played, played_after_shutdown, historyVars>>
       \/ \E exc \in GameExceptions : Raised(w, exc)
    /\ UNCHANGED <<mainVars, reqVars, textVars,
                   sessionVars>>

\* play_game, lines 331-368, then start_worker, lines 288-291.  The turns
\* of a game take time: the clock has moved on since start_time.
PlayGameReturns(w) ==
    /\ pc[w] = "playing"
    /\ max_games = None => games_played[w] < MaxPlayed
    /\ now > start_time[w][1]
    /\ LET path == LogsJsonlPath(LogsDirectoryPath(w), timestamp[w][1])
           session == <<w, games_played[w]>>
       IN files' = [files EXCEPT ![path] = Some(session)]
    /\ games_played' = [games_played EXCEPT ![w] = @ + 1]
    /\ played_after_shutdown' =
         [played_after_shutdown EXCEPT
            ![w] = AfterShutdownCount(stop_event, @)]
    /\ pc' = [pc EXCEPT ![w] = "loop_top"]
    /\ last_outcome' = [last_outcome EXCEPT ![w] = "returned"]
    /\ flag_game' = [flag_game EXCEPT
                       ![w] = IF @ = "running" THEN "returned" ELSE @]
    /\ start_time' = [start_time EXCEPT ![w] = None]
    /\ timestamp' = [timestamp EXCEPT ![w] = None]
    /\ UNCHANGED <<tracks, processes, max_games, stop_event,
                   termination_signals_received, main_pc, now,
                   games_started, started_after_stop, stop_reason, reqVars, textVars,
                   sessionVars>>

\* play_game, lines 331-368: a turn, the close or the write raises
PlayGameRaises(w) ==
    /\ pc[w] = "playing"
    /\ \E exc \in GameExceptions : Raised(w, exc)
    /\ UNCHANGED <<mainVars, reqVars, textVars,
                   sessionVars>>

WorkerStep(w) ==
    \/ LoopTop(w)
    \/ PlayGameSetup(w)
    \/ PlayGameReturns(w)
    \/ PlayGameRaises(w)

----------------------------------------------------------------------------
\* main

\* the workers in the list processes
Kept == { processes[i] : i \in 1..Len(processes) }

\* handle_shutdown, lines 167-193; the handlers are installed (lines
\* 196-197) before the first worker is started
HandleShutdown ==
    /\ main_pc \in {"spawning", "appending", "joining"}
    /\ termination_signals_received' = termination_signals_received + 1
    /\ IF termination_signals_received' = 1
       THEN /\ stop_event' = TRUE
            /\ flag_game' = [w \in AllTracks |->
                               IF pc[w] \in {"play_game", "playing"}
                               THEN "running" ELSE flag_game[w]]
            /\ UNCHANGED <<main_pc, pc, stop_reason>>
       ELSE /\ pc' = [w \in AllTracks |->
                        IF w \in Kept /\ IsAlive(w) THEN "killed" ELSE pc[w]]
            /\ stop_reason' = [w \in AllTracks |->
                                 IF w \in Kept /\ IsAlive(w) THEN "killed"
                                 ELSE stop_reason[w]]
            /\ main_pc' = "forced_exit"
            /\ UNCHANGED <<stop_event, flag_game>>
    /\ UNCHANGED <<tracks, processes, max_games, now, files, games_played,
                   played_after_shutdown, start_time, timestamp,
                   games_started,
                   started_after_stop, last_outcome, reqVars, textVars,
                   sessionVars>>

\* main, lines 200-219: the next worker process is created and started
StartProcess ==
    /\ main_pc = "spawning"
    /\ LET trk == selected_tracks(tracks)[Len(processes) + 1]
       IN pc' = [pc EXCEPT ![trk] = "loop_top"]
    /\ main_pc' = "appending"
    /\ UNCHANGED <<tracks, processes, max_games, stop_event,
                   termination_signals_received, now, files, games_played,
                   played_after_shutdown, start_time, timestamp,
                   historyVars, reqVars, textVars,
                   sessionVars>>

\* main, line 220, then the next iteration of line 200 or the joins
AppendProcess ==
    /\ main_pc = "appending"
    /\ processes' = Append(processes,
                           selected_tracks(tracks)[Len(processes) + 1])
    /\ main_pc' = IF Len(processes') < Len(selected_tracks(tracks))
                  THEN "spawning" ELSE "joining"
    /\ UNCHANGED <<tracks, max_games, stop_event,
                   termination_signals_received, now, files, workerVars,
                   historyVars, reqVars, textVars,
                   sessionVars>>

\* main, lines 224-230: every join has returned
MainExit ==
    /\ main_pc = "joining"
    /\ \A w \in Workers : ~IsAlive(w)
    /\ main_pc' = "exited"
    /\ UNCHANGED <<tracks, processes, max_games, stop_event,
                   termination_signals_received, now, files, workerVars,
                   historyVars, reqVars, textVars,
                   sessionVars>>

\* the UTC clock read by datetime.now
Tick ==
    /\ now < MaxTicks
    /\ now' = now + 1
    /\ UNCHANGED <<tracks, processes, max_games, stop_event,
                   termination_signals_received, main_pc, files, workerVars,
                   historyVars, reqVars, textVars,
                   sessionVars>>

----------------------------------------------------------------------------
\* Texts (utils.py, prompt_utils.py)
\*
\* A text is a sequence of symbols.  A symbol is one whitespace character,
\* one other character, or a phrase: a run of characters without a line
\* break that starts and ends with a non-whitespace character (its inner
\* spaces are followed by a character of the phrase).

SP == " "
TAB == "\t"
CR == "\r"
LF == "\n"

\* the characters [ \t] of the two patterns of lines 12 and 14
Blanks == {SP, TAB}

\* the whitespace str.strip removes and \s matches
Whitespace == {SP, TAB, CR, LF}

\* text with the symbols at the indices in drop removed (re.sub with "")
RemoveAt(text, drop) ==
    LET F[i \in 0..Len(text)] ==
          IF i = 0 THEN <<>>
          ELSE IF i \in drop THEN F[i - 1]
          ELSE Append(F[i - 1], text[i])
    IN F[Len(text)]

\* index of the first symbol after index i that is not in [ \t], or
\* Len(text) + 1
AfterBlanks(text, i) ==
    LET F[k \in 0..Len(text)] ==
          IF k = Len(text) THEN Len(text) + 1
          ELSE IF text[k + 1] \notin Blanks THEN k + 1
          ELSE F[k + 1]
    IN F[i]

\* the lookahead (?=\r?\n) at index j
AtLineBreak(text, j) ==
    /\ j <= Len(text)
    /\ \/ text[j] = LF
       \/ /\ text[j] = CR
          /\ j + 1 <= Len(text)
          /\ text[j + 1] = LF

\* line 12: re.sub(r"[ \t]+(?=\r?\n)", "", text)
RemoveBlanksBeforeLineBreak(text) ==
    RemoveAt(text, { i \in 1..Len(text) :
                       /\ text[i] \in Blanks
                       /\ AtLineBreak(text, AfterBlanks(text, i)) })

\* line 14: re.sub(r"[ \t]+$", "", cleaned); $ is the end of the text or the
\* position before a line feed that ends the text
RemoveBlanksAtEnd(text) ==
    RemoveAt(text, { i \in 1..Len(text) :
                       /\ text[i] \in Blanks
                       /\ LET j == AfterBlanks(text, i)
                          IN \/ j = Len(text) + 1
                             \/ (j = Len(text) /\ text[j] = LF) })

\* str.strip
Strip(text) ==
    LET inner == { i \in 1..Len(text) : text[i] \notin Whitespace }
    IN RemoveAt(text, { i \in 1..Len(text) :
                          \/ \A k \in inner : i < k
                          \/ \A k \in inner : i > k })

----------------------------------------------------------------------------
\* In2AIMindGamesAgent._run_request (agent.py, lines 81-114)

\* line 88: range(3)
MaxAttempts == 3
\* line 110: time.sleep(1)
SleepSeconds == 1

ValidMessage(text) == Some([content |-> Some(text)])

\* The ChatCompletion values the endpoint is tried with (None included).
Responses ==
    { None,
      Some([choices |-> <<>>]),
      Some([choices |-> <<[message |-> None]>>]),
      Some([choices |-> <<[message |-> Some([content |-> None])]>>]),
      Some([choices |-> <<[message |-> ValidMessage(<<>>)]>>]),
      Some([choices |-> <<[message |-> ValidMessage(<<"[A4 B8 C8]", LF>>)]>>]),
      Some([choices |-> <<[message |-> Some([content |-> None])],
                          [message |-> ValidMessage(<<"[1 defect]">>)]>>]),
      Some([choices |-> <<[message |-> ValidMessage(<<SP, LF, "[cooperate]", SP, "because", TAB>>)],
                          [message |-> None]>>]) }

\* The errors the endpoint is tried with.
ClientExceptions ==
    { [type |-> "APIConnectionError", msg |-> <<"Connection", "error">>],
      [type |-> "RateLimitError", msg |-> <<"Too", "many", "requests">>] }

\* What one call of client.chat.completions.create does: it raises exc, or
\* returns response.
CallOutcomes ==
    { [exc |-> None, response |-> r] : r \in Responses } \cup
    { [exc |-> Some(e), response |-> None] : e \in ClientExceptions }

\* line 102
NoCompletionError ==
    [type |-> "ValueError",
     msg |-> <<"No", "completion", "found", "in", "the", "response">>]

\* line 114
RetriesError ==
    [type |-> "RuntimeError",
     msg |-> <<"Failed", "to", "get", "a", "valid", "completion", "after",
               "retries">>]

\* Faulty variant of InvalidResponse: the content of the message is not tested.
InvalidResponseNoContent(response) ==
    IF response = None THEN TRUE
    ELSE IF Len(response[1].choices) = 0 THEN TRUE
    ELSE response[1].choices[1].message = None

\* lines 95-100 (`or` evaluates left to right and stops at the first true)
InvalidResponse(response) ==
    IF response = None THEN TRUE
    ELSE IF Len(response[1].choices) = 0 THEN TRUE
    ELSE IF response[1].choices[1].message = None THEN TRUE
    ELSE response[1].choices[1].message[1].content = None

\* Faulty variant of RecordedCause: the first cause is kept, later ones are dropped.
RecordedCauseFirst(out, previous) ==
    IF previous # None THEN previous
    ELSE IF out.exc # None THEN out.exc ELSE Some(NoCompletionError)

\* Faulty variant of RecordedCause: a response without a completion records
\* nothing.
RecordedCauseOfExceptions(out, previous) ==
    IF out.exc # None THEN out.exc ELSE previous

\* lines 102 and 107: what a failed attempt stores in last_exception
RecordedCause(out, previous) ==
    IF out.exc # None THEN out.exc ELSE Some(NoCompletionError)

\* Faulty variant of SleepsAfter: every failed attempt is followed by a sleep.
SleepsAfterAlways(index) == index < MaxAttempts

\* line 109
SleepsAfter(index) == index < MaxAttempts - 1

\* lines 112-114
Exhausted(cause) == IF cause # None THEN cause[1] ELSE RetriesError

InitRequest ==
    /\ attempt_index = 0
    /\ last_exception = None
    /\ rq_returned = None
    /\ rq_raised = None
    /\ agent_response = None
    /\ rq_calls = <<>>
    /\ rq_sleeps = <<>>
    /\ rq_slept = 0

\* lines 89-107: one call of the endpoint and what the loop makes of it
RunRequestAttempt ==
    /\ rq_pc = "attempt"
    /\ \E out \in CallOutcomes :
         /\ rq_calls' = Append(rq_calls, out)
         /\ IF out.exc = None /\ ~InvalidResponse(out.response)
            THEN /\ rq_pc' = "returned"
                 /\ rq_returned' = Some(out.response)
                 /\ UNCHANGED last_exception
            ELSE /\ rq_pc' = "failed"
                 /\ last_exception' = RecordedCause(out, last_exception)
                 /\ UNCHANGED rq_returned
    /\ UNCHANGED <<attempt_index, rq_raised, agent_response, rq_sleeps,
                   rq_slept>>
    /\ UNCHANGED <<mainVars, workerVars, historyVars, textVars,
                   sessionVars>>

\* lines 109-110 after a failed attempt, then the next iteration of line 88
\* or, the loop being over, lines 112-114
RunRequestAfterFailure ==
    /\ rq_pc = "failed"
    /\ IF SleepsAfter(attempt_index)
       THEN /\ rq_sleeps' = Append(rq_sleeps, Len(rq_calls))
            /\ rq_slept' = rq_slept + SleepSeconds
       ELSE UNCHANGED <<rq_sleeps, rq_slept>>
    /\ IF attempt_index + 1 < MaxAttempts
       THEN /\ rq_pc' = "attempt"
            /\ attempt_index' = attempt_index + 1
            /\ UNCHANGED rq_raised
       ELSE /\ rq_pc' = "raised"
            /\ rq_raised' = Some(Exhausted(last_exception))
            /\ UNCHANGED attempt_index
    /\ UNCHANGED <<last_exception, rq_returned, agent_response, rq_calls>>
    /\ UNCHANGED <<mainVars, workerVars, historyVars, textVars,
                   sessionVars>>

\* Faulty variant of parse_action: the completion is taken as it is.
ParseActionUntrimmed(completion) ==
    [action |-> Some(completion), action_parsing_failed |-> FALSE]

\* agent.py lines 119-120: _parse_action
parse_action(completion) ==
    [action |-> Some(Strip(completion)), action_parsing_failed |-> FALSE]

\* agent.py lines 71-79: __call__ after _run_request has returned.  The
\* strip of a completion that is None would raise AttributeError.
AgentReturns ==
    /\ rq_pc = "returned"
    /\ LET completion == rq_returned[1][1].choices[1].message[1].content
       IN IF completion = None
          THEN /\ rq_pc' = "raised"
               /\ rq_raised' = Some([type |-> "AttributeError",
                                     msg |-> <<"'NoneType'", "object", "has",
                                               "no", "attribute", "'strip'">>])
               /\ UNCHANGED agent_response
          ELSE /\ rq_pc' = "responded"
               /\ agent_response' =
                    Some([completion |-> completion,
                          action |-> parse_action(completion[1])])
               /\ UNCHANGED rq_raised
    /\ UNCHANGED <<attempt_index, last_exception, rq_returned, rq_calls,
                   rq_sleeps, rq_slept>>
    /\ UNCHANGED <<mainVars, workerVars, historyVars, textVars,
                   sessionVars>>

----------------------------------------------------------------------------
\* The normalizer (utils.py lines 5-15) and one call of it

\* remove_trailing_spaces_keep_blank_lines, lines 5-15
remove_trailing_spaces_keep_blank_lines(text) ==
    Strip(RemoveBlanksAtEnd(RemoveBlanksBeforeLineBreak(text)))

\* the calls made so far have returned these texts; nothing is called yet
InitText(texts) ==
    /\ observation \in texts
    /\ tx_pc = "text"
    /\ tx_out = <<>>

\* one more call of the normalizer, on what the previous call returned
Normalize ==
    /\ tx_pc \in {"text", "normalized"}
    /\ Len(tx_out) < 2
    /\ tx_pc' = "normalized"
    /\ tx_out' = Append(tx_out,
                        remove_trailing_spaces_keep_blank_lines(
                            IF tx_out = <<>> THEN observation
                            ELSE tx_out[Len(tx_out)]))
    /\ UNCHANGED observation
    /\ UNCHANGED <<mainVars, workerVars, historyVars, reqVars, sessionVars>>

----------------------------------------------------------------------------
\* Regular expressions (the re module as utils.py uses it)
\*
\* A pattern is a sequence of elements.  An element is the anchor ^ of a
\* MULTILINE pattern, or a set of symbols (or its complement) taken once,
\* at most once, or repeatedly (greedy or lazy).  Every pattern modelled
\* here is compiled with re.IGNORECASE.

\* the symbols written in another case in the texts tried
CaseFold ==
    [s \in {"Colonel", "Blotto", "[game]", "available fields:",
             "units to allocate:", "a", "b", "red", "blue"} |->
       CASE s = "Colonel" -> "COLONEL"
         [] s = "red" -> "Red"
         [] s = "blue" -> "Blue"
         [] s = "units to allocate:" -> "Units to allocate:"
         [] s = "Blotto" -> "BLOTTO"
         [] s = "[game]" -> "[GAME]"
         [] s = "available fields:" -> "Available fields:"
         [] s = "a" -> "A"
         [] s = "b" -> "B"]

\* re.IGNORECASE
Fold(sym) == IF sym \in DOMAIN CaseFold THEN CaseFold[sym] ELSE sym

Inf == 1000000

Lit(sym) == [kind |-> "set", set |-> {sym}, neg |-> FALSE,
             min |-> 1, max |-> 1, lazy |-> FALSE]
OneOf(S) == [kind |-> "set", set |-> S, neg |-> FALSE,
             min |-> 1, max |-> 1, lazy |-> FALSE]
Opt(sym) == [kind |-> "set", set |-> {sym}, neg |-> FALSE,
             min |-> 0, max |-> 1, lazy |-> FALSE]
Plus(S) == [kind |-> "set", set |-> S, neg |-> FALSE,
            min |-> 1, max |-> Inf, lazy |-> FALSE]
Star(S) == [kind |-> "set", set |-> S, neg |-> FALSE,
            min |-> 0, max |-> Inf, lazy |-> FALSE]
StarNot(S) == [kind |-> "set", set |-> S, neg |-> TRUE,
               min |-> 0, max |-> Inf, lazy |-> FALSE]
\* .+? and (.*?) under re.DOTALL or inside one line
LazyPlusNot(S) == [kind |-> "set", set |-> S, neg |-> TRUE,
                   min |-> 1, max |-> Inf, lazy |-> TRUE]
\* ^ under re.MULTILINE
Bol == [kind |-> "bol", set |-> {}, neg |-> FALSE,
        min |-> 0, max |-> 0, lazy |-> FALSE]

\* \d
Digits == {"0", "1", "2", "3", "5"}

\* int() of a run of digits
DigitValue(d) ==
    CASE d = "0" -> 0 [] d = "1" -> 1 [] d = "2" -> 2 [] d = "3" -> 3
      [] d = "5" -> 5

int(digits) ==
    LET F[i \in 0..Len(digits)] ==
          IF i = 0 THEN 0 ELSE 10 * F[i - 1] + DigitValue(digits[i])
    IN F[Len(digits)]

SetMax(S) == CHOOSE x \in S : \A y \in S : y <= x
SetMin(S) == CHOOSE x \in S : \A y \in S : x <= y

\* the symbol c is one the element e takes
Takes(e, c) == (Fold(c) \in { Fold(x) : x \in e.set }) # e.neg

\* position after the longest run of symbols from position p that e takes
RunEnd(e, text, p) ==
    LET F[k \in p..(Len(text) + 1)] ==
          IF k > Len(text) THEN k
          ELSE IF ~Takes(e, text[k]) THEN k
          ELSE F[k + 1]
    IN F[p]

Smaller(a, b) == IF a < b THEN a ELSE b

\* the positions at which e, started at position p, may stop
Stops(e, text, p) ==
    IF e.kind = "bol"
    THEN IF p = 1 \/ text[p - 1] = LF THEN {p} ELSE {}
    ELSE (p + e.min)..Smaller(p + e.max, RunEnd(e, text, p))

\* the elements k.. of pat match at position p
RECURSIVE CanMatch(_, _, _, _)
CanMatch(pat, k, text, p) ==
    IF k > Len(pat) THEN TRUE
    ELSE \E q \in Stops(pat[k], text, p) : CanMatch(pat, k + 1, text, q)

\* the match the backtracking search finds for the elements k.. at position
\* p: a greedy element stops as late, a lazy one as early, as lets the rest
\* match.  The result lists where each element starts, then where the match
\* ends.
Preferred(lazy, ok) == IF lazy THEN SetMin(ok) ELSE SetMax(ok)

RECURSIVE MatchAt(_, _, _, _)
MatchAt(pat, k, text, p) ==
    IF k > Len(pat) THEN <<p>>
    ELSE <<p>> \o MatchAt(pat, k + 1, text,
                          Preferred(pat[k].lazy,
                                    { q \in Stops(pat[k], text, p) :
                                        CanMatch(pat, k + 1, text, q) }))

\* the positions at which a match of pat starts
Starts(pat, text) ==
    { i \in 1..(Len(text) + 1) : CanMatch(pat, 1, text, i) }

\* bool(pattern.search(text))
Search(pat, text) == Starts(pat, text) # {}

\* list(pattern.finditer(text)): the matches from left to right, each
\* searched from where the previous one ended
RECURSIVE FindIterFrom(_, _, _)

\* where the search resumes after the match m: at its end, one further on
\* after an empty match
ResumeAt(m) == IF m[Len(m)] > m[1] THEN m[Len(m)] ELSE m[Len(m)] + 1

MatchThenRest(pat, text, m) == <<m>> \o FindIterFrom(pat, text, ResumeAt(m))

FindIterAmong(pat, text, from) ==
    IF from = {} THEN <<>>
    ELSE MatchThenRest(pat, text, MatchAt(pat, 1, text, SetMin(from)))

FindIterFrom(pat, text, p) ==
    FindIterAmong(pat, text, { i \in Starts(pat, text) : i >= p })

FindIter(pat, text) == FindIterFrom(pat, text, 1)

\* m.group of the element k of the pattern
Group(text, m, k) == SubSeq(text, m[k], m[k + 1] - 1)

----------------------------------------------------------------------------
\* Game detection (utils.py) and classification (agent.py)

\* \s
WS == Whitespace

\* utils.py line 20, first alternative
BlottoRolePattern ==
    <<Lit("You"), Lit(SP), Lit("are"), Plus(WS), LazyPlusNot({}), Plus(WS),
      Lit("in a game of ColonelBlotto.")>>

\* utils.py line 20, second alternative
BlottoTitlePattern == <<Lit("COLONEL"), Plus(WS), Lit("BLOTTO")>>

\* utils.py lines 18-23
is_colonel_blotto(obs) ==
    Search(BlottoRolePattern, obs) \/ Search(BlottoTitlePattern, obs)

\* utils.py line 275
CodenamesPattern ==
    <<Lit("You"), Lit(SP), Lit("are"), Lit(SP), Lit("playing Codenames"),
      Opt(","), Star(WS), Lit("a 2v2 word deduction game.")>>

\* utils.py lines 273-278
is_codenames(obs) == Search(CodenamesPattern, obs)

\* utils.py line 105
CodenamesRolePattern ==
    <<Lit("You"), Lit(SP), Lit("are"), Lit(SP), Lit("Player"), Plus(WS),
      Plus(Digits), Lit(","), Plus(WS), Lit("the"), Plus(WS),
      OneOf({"Spymaster", "Operative"}), Plus(WS), Lit("for")>>

\* utils.py line 125 (Prisoner'?s is one symbol, with or without the ')
IpdTitlePattern ==
    <<Lit("3-player"), Plus(WS), Lit("Iterated"), Plus(WS),
      OneOf({"Prisoner's", "Prisoners"}), Plus(WS), Lit("Dilemma")>>

\* utils.py line 120
IpdPrimaryPattern ==
    <<Lit("You"), Plus(WS), Lit("are"), Plus(WS), Lit("Player"), Plus(WS),
      Plus(Digits), Plus(WS), Lit("in"), Plus(WS), Lit("a"), Plus(WS)>>
    \o IpdTitlePattern

\* utils.py lines 126 and 201
IpdTokenPattern ==
    <<Lit("["), Star(WS), Plus(Digits), Plus(WS),
      OneOf({"cooperate", "defect"}), Star(WS), Lit("]")>>

\* utils.py lines 114-129
is_three_player_ipd(obs) ==
    IF Search(IpdPrimaryPattern, obs) THEN TRUE
    ELSE Search(IpdTitlePattern, obs) \/ Search(IpdTokenPattern, obs)

GameKinds == {"ColonelBlotto", "Codenames", "ThreePlayerIPD", "Default"}

\* Faulty variant of ExtractGameGuideline: no kind is returned when no
\* detector matches.
ExtractGameGuidelineNoDefault(text) ==
    LET obs == remove_trailing_spaces_keep_blank_lines(text)
    IN IF is_colonel_blotto(obs) THEN "ColonelBlotto"
       ELSE IF is_codenames(obs) THEN "Codenames"
       ELSE IF is_three_player_ipd(obs) THEN "ThreePlayerIPD"
       ELSE "None"

\* Faulty variant of ExtractGameGuideline: the third detector is tried
\* first.
ExtractGameGuidelineIpdFirst(text) ==
    LET obs == remove_trailing_spaces_keep_blank_lines(text)
    IN IF is_three_player_ipd(obs) THEN "ThreePlayerIPD"
       ELSE IF is_colonel_blotto(obs) THEN "ColonelBlotto"
       ELSE IF is_codenames(obs) THEN "Codenames"
       ELSE "Default"

\* Faulty variant of ExtractGameGuideline: the second detector is tried
\* first.
ExtractGameGuidelineCodenamesFirst(text) ==
    LET obs == remove_trailing_spaces_keep_blank_lines(text)
    IN IF is_codenames(obs) THEN "Codenames"
       ELSE IF is_colonel_blotto(obs) THEN "ColonelBlotto"
       ELSE IF is_three_player_ipd(obs) THEN "ThreePlayerIPD"
       ELSE "Default"

\* agent.py lines 131-141: _extract_game_game_guideline
ExtractGameGuideline(text) ==
    LET obs == remove_trailing_spaces_keep_blank_lines(text)
    IN IF is_colonel_blotto(obs) THEN "ColonelBlotto"
       ELSE IF is_codenames(obs) THEN "Codenames"
       ELSE IF is_three_player_ipd(obs) THEN "ThreePlayerIPD"
       ELSE "Default"

\* agent.py lines 67-69: the call of _extract_game_game_guideline
Classify ==
    /\ tx_pc = "text"
    /\ tx_pc' = "classified"
    /\ tx_out' = <<ExtractGameGuideline(observation)>>
    /\ UNCHANGED observation
    /\ UNCHANGED <<mainVars, workerVars, historyVars, reqVars, sessionVars>>

----------------------------------------------------------------------------
\* Colonel Blotto context (utils.py lines 26-100)

\* [A-Za-z]
Letters == {"A", "B", "C", "a", "b"}

\* str.upper
Upper(sym) == Fold(sym)

\* (.*?) inside one line
LazyStarNot(S) == [kind |-> "set", set |-> S, neg |-> TRUE,
                   min |-> 0, max |-> Inf, lazy |-> TRUE]

\* line 28
RoleCapturePattern ==
    <<Lit("You"), Lit(SP), Lit("are"), Plus(WS), LazyStarNot({LF}), Plus(WS),
      Lit("in a game of ColonelBlotto.")>>

\* lines 26-32
ExtractRole(obs) ==
    LET starts == Starts(RoleCapturePattern, obs)
    IN IF starts = {} THEN None
       ELSE Some(Strip(Group(obs, MatchAt(RoleCapturePattern, 1, obs,
                                          SetMin(starts)), 5)))

\* line 38
UnitsPattern == <<Lit("Units to allocate:"), Star(WS), Plus(Digits)>>

\* line 71
RoundPattern ==
    <<Lit("COLONEL"), Plus(WS), Lit("BLOTTO"), Star(WS), Lit("-"), Star(WS),
      Lit("Round"), Star(WS), Plus(Digits), Lit("/"), Plus(Digits)>>

\* lines 55-56, up to the first letter of the list
FieldsHeadPattern ==
    <<Lit("Available fields:"), Star(WS), OneOf(Letters)>>

\* line 56: one more (?:\s*,\s*[A-Za-z])
FieldsMorePattern ==
    <<Star(WS), Lit(","), Star(WS), OneOf(Letters)>>

\* line 56: where the greedy ( ... )* stops
RECURSIVE FieldListEnd(_, _)
FieldListEnd(text, p) ==
    IF CanMatch(FieldsMorePattern, 1, text, p)
    THEN LET m == MatchAt(FieldsMorePattern, 1, text, p)
         IN FieldListEnd(text, m[Len(m)])
    ELSE p

\* lines 59-65: the matches of the pattern (where the list starts and
\* ends), from left to right; no match holds the start of another
FieldsMatches(obs) ==
    LET starts == Starts(FieldsHeadPattern, obs)
        F[i \in 0..(Len(obs) + 1)] ==
          IF i = 0 THEN <<>>
          ELSE IF i \in starts
               THEN LET m == MatchAt(FieldsHeadPattern, 1, obs, i)
                    IN Append(F[i - 1], <<m[3], FieldListEnd(obs, m[4])>>)
               ELSE F[i - 1]
    IN F[Len(obs) + 1]

\* line 65: split on ",", strip, upper, drop the empty pieces (each piece
\* of the list matched is one letter within whitespace)
SplitFields(fields_str) ==
    LET F[i \in 0..Len(fields_str)] ==
          IF i = 0 THEN <<>>
          ELSE IF fields_str[i] \in WS \cup {","} THEN F[i - 1]
          ELSE Append(F[i - 1], Upper(fields_str[i]))
    IN F[Len(fields_str)]

\* Faulty variant of Latest: the first match is taken.
Earliest(matches) == matches[1]

\* lines 42, 62 and 81: matches[-1]
Latest(matches) == matches[Len(matches)]

\* lines 35-46
ExtractUnits(obs) ==
    LET matches == FindIter(UnitsPattern, obs)
    IN IF matches = <<>> THEN None
       ELSE Some(int(Group(obs, Latest(matches), 3)))

\* lines 49-65
ExtractFields(obs) ==
    LET matches == FieldsMatches(obs)
    IN IF matches = <<>> THEN None
       ELSE LET m == Latest(matches)
            IN Some(SplitFields(SubSeq(obs, m[1], m[2] - 1)))

\* lines 68-85
ExtractRoundInfo(obs) ==
    LET matches == FindIter(RoundPattern, obs)
    IN IF matches = <<>> THEN <<None, None>>
       ELSE LET last == Latest(matches)
            IN <<Some(int(Group(obs, last, 9))),
                 Some(int(Group(obs, last, 11)))>>

\* lines 88-100
extract_colonel_blotto_context(obs) ==
    [role |-> ExtractRole(obs),
     num_units |-> ExtractUnits(obs),
     fields |-> ExtractFields(obs),
     current_round |-> ExtractRoundInfo(obs)[1],
     total_rounds |-> ExtractRoundInfo(obs)[2]]

\* one call of extract_colonel_blotto_context
BlottoContext ==
    /\ tx_pc = "text"
    /\ tx_pc' = "blotto_context"
    /\ tx_out' = <<extract_colonel_blotto_context(observation)>>
    /\ UNCHANGED observation
    /\ UNCHANGED <<mainVars, workerVars, historyVars, reqVars, sessionVars>>

----------------------------------------------------------------------------
\* Phase of the iterated prisoner's dilemma (utils.py lines 178-205)

\* line 201
TailWindow == 1000

\* the number of characters of the symbols that are not one character; the
\* symbol "Lorem ipsum" stands for a text of 990 characters
SymbolLength ==
    "You" :> 3 @@ "are" :> 3 @@ "Commander Alpha" :> 15 @@
    "in a game of ColonelBlotto." :> 27 @@ "Colonel" :> 7 @@ "Blotto" :> 6 @@
    "COLONEL" :> 7 @@ "BLOTTO" :> 6 @@ "===" :> 3 @@ "Round" :> 5 @@
    "Units to allocate:" :> 18 @@ "units to allocate:" :> 18 @@
    "Available fields:" :> 17 @@ "available fields:" :> 17 @@
    "playing Codenames" :> 17 @@ "a 2v2 word deduction game." :> 26 @@
    "Player" :> 6 @@ "the" :> 3 @@ "Spymaster" :> 9 @@ "for" :> 3 @@
    "Red team." :> 9 @@ "in" :> 2 @@ "3-player" :> 8 @@ "Iterated" :> 8 @@
    "Prisoner's" :> 10 @@ "Dilemma" :> 7 @@ "cooperate" :> 9 @@
    "[GAME]" :> 6 @@ "[game]" :> 6 @@ "You can converse freely" :> 23 @@
    "for the next 2 rounds." :> 22 @@ "Round 1:" :> 8 @@
    "submit your decisions" :> 21 @@ "[Player 1]" :> 10 @@ "I will" :> 6 @@
    "Lorem ipsum" :> 990

\* len
SymLen(sym) == IF sym \in DOMAIN SymbolLength THEN SymbolLength[sym] ELSE 1

\* len of text[i..]
CharsFrom(text, i) ==
    LET F[k \in 1..(Len(text) + 1)] ==
          IF k > Len(text) THEN 0 ELSE SymLen(text[k]) + F[k + 1]
    IN F[i]

\* what is left of a symbol that a slice cuts: no pattern has it
CutSymbol == "..."

\* Faulty variant of LastChars: the whole text.
LastCharsAll(text, n) == text

\* text[-n:]
LastChars(text, n) ==
    LET whole == { i \in 1..(Len(text) + 1) : CharsFrom(text, i) <= n }
        first == SetMin(whole)
        rest == SubSeq(text, first, Len(text))
    IN IF first = 1 \/ CharsFrom(text, first) = n THEN rest
       ELSE <<CutSymbol>> \o rest

\* lines 182-185
DecisionMarkerPattern ==
    <<Bol, Lit("[GAME]"), StarNot({LF}), Lit("submit your decisions")>>

\* lines 188-191
ConverseMarkerPattern ==
    <<Bol, Lit("[GAME]"), StarNot({LF}), Lit("You can converse freely")>>

\* lines 181-186 and 187-192: m.start() of the last match, if any
StartOfLast(matches) ==
    IF matches = <<>> THEN None ELSE Some(matches[Len(matches)][1])

LastStart(pat, obs) == StartOfLast(FindIter(pat, obs))

\* lines 178-205
PhaseFrom(dec_last, conv_last, token_like) ==
    IF dec_last # None \/ conv_last # None
    THEN IF dec_last # None
            /\ (conv_last = None \/ dec_last[1] > conv_last[1])
         THEN "decision"
         ELSE "conversation"
    ELSE IF Len(token_like) >= 1 THEN "decision" ELSE "conversation"

ipd_detect_phase(obs) ==
    PhaseFrom(LastStart(DecisionMarkerPattern, obs),
              LastStart(ConverseMarkerPattern, obs),
              FindIter(IpdTokenPattern, LastChars(obs, TailWindow)))

\* one call of _ipd_detect_phase
DetectPhase ==
    /\ tx_pc = "text"
    /\ tx_pc' = "phase"
    /\ tx_out' = <<ipd_detect_phase(observation)>>
    /\ UNCHANGED observation
    /\ UNCHANGED <<mainVars, workerVars, historyVars, reqVars, sessionVars>>

----------------------------------------------------------------------------
\* build_messages (prompt_utils.py lines 15-121)

\* the static system text, lines 124-163, as one symbol
SystemPromptTemplate == <<"You are a competitive game agent. [...] Reasoning: high.">>

\* utils.py line 110
CodenamesRoleError ==
    [type |-> "ValueError",
     msg |-> <<"Codenames", "role", "not", "found", "in", "observation">>]

\* Faulty variant of get_codenames_role: no match gives None, nothing is
\* raised.
GetCodenamesRoleOrNone(obs) ==
    LET starts == Starts(CodenamesRolePattern, obs)
    IN IF starts = {} THEN [raised |-> None, value |-> None]
       ELSE [raised |-> None,
             value |-> Some(Group(obs, MatchAt(CodenamesRolePattern, 1, obs,
                                               SetMin(starts)), 12)[1])]

\* utils.py lines 103-111: what is raised, or else what is returned
get_codenames_role(obs) ==
    LET starts == Starts(CodenamesRolePattern, obs)
    IN IF starts = {} THEN [raised |-> Some(CodenamesRoleError), value |-> None]
       ELSE [raised |-> None,
             value |-> Some(Group(obs, MatchAt(CodenamesRolePattern, 1, obs,
                                               SetMin(starts)), 12)[1])]

----------------------------------------------------------------------------
\* Codenames context (utils.py lines 281-337)

\* lines 288-292
TeamPromptPattern ==
    <<Lit("You"), Lit(SP), Lit("are"), Lit(SP), Lit("Player"), Plus(WS),
      Plus(Digits), Lit(","), Plus(WS), Lit("the"), Plus(WS),
      OneOf({"Spymaster", "Operative"}), Plus(WS), Lit("for"), Plus(WS),
      OneOf({"Red", "Blue"}), Plus(WS), Lit("team.")>>

\* \w of the texts tried: the words, the letters and the digits
WordSymbols == {"ocean", "Fire", "river"} \cup Letters \cup Digits

\* lines 298-304
SubmittedPattern ==
    <<Lit("Spymaster"), Plus(WS), Lit("of"), Plus(WS), OneOf({"Red", "Blue"}),
      Plus(WS), Lit("team,"), Plus(WS), Lit("Player"), Plus(WS), Plus(Digits),
      Lit(","), Plus(WS), Lit("submitted"), Plus(WS), Lit("["),
      Plus(WordSymbols), Plus(WS), Plus(Digits), Lit("].")>>

\* str.capitalize of a team name
Capitalize(sym) ==
    CASE sym \in {"Red", "red"} -> "Red"
      [] sym \in {"Blue", "blue"} -> "Blue"
      [] OTHER -> sym

\* str.lower of a word
Lower(word) ==
    [i \in DOMAIN word |->
       CASE word[i] = "Fire" -> "fire"
         [] word[i] = "A" -> "a"
         [] word[i] = "B" -> "b"
         [] word[i] = "C" -> "c"
         [] OTHER -> word[i]]

\* lines 288-294: the team of the role line, if there is one
PromptTeam(obs) ==
    LET starts == Starts(TeamPromptPattern, obs)
    IN IF starts = {} THEN None
       ELSE Some(Capitalize(Group(obs, MatchAt(TeamPromptPattern, 1, obs,
                                               SetMin(starts)), 16)[1]))

\* m.group(1).capitalize() of a submission
SubmittedTeam(obs, m) == Capitalize(Group(obs, m, 5)[1])

\* lines 310-314: the last of the first i matches that is of the team, if
\* there is one
RECURSIVE OwnLast(_, _, _, _)
OwnLast(obs, matches, team, i) ==
    IF i = 0 THEN None
    ELSE IF SubmittedTeam(obs, matches[i]) = team THEN Some(matches[i])
    ELSE OwnLast(obs, matches, team, i - 1)

\* lines 316-317
OrVeryLast(selected_match, matches) ==
    IF selected_match = None THEN matches[Len(matches)]
    ELSE selected_match[1]

\* Faulty variant of SelectedMatch: the very last match is taken, whatever
\* its team.
SelectedMatchVeryLast(obs, matches, team) == matches[Len(matches)]

\* lines 307-317
SelectedMatch(obs, matches, team) ==
    IF team # None
    THEN OrVeryLast(OwnLast(obs, matches, team[1], Len(matches)), matches)
    ELSE matches[Len(matches)]

\* lines 319-331 and 333-337
FilledContext(obs, selected_match, team) ==
    [team |-> IF team = None THEN Some(SubmittedTeam(obs, selected_match))
              ELSE team,
     last_clue_word |-> Some(Lower(Group(obs, selected_match, 17))),
     last_clue_number |-> Some(int(Group(obs, selected_match, 19)))]

\* lines 305-337
ContextFrom(obs, submitted_matches, team) ==
    IF submitted_matches = <<>>
    THEN [team |-> team, last_clue_word |-> None, last_clue_number |-> None]
    ELSE FilledContext(obs, SelectedMatch(obs, submitted_matches, team), team)

\* lines 281-337
extract_codenames_context(obs) ==
    ContextFrom(obs, FindIter(SubmittedPattern, obs), PromptTeam(obs))

\* one call of extract_codenames_context
CodenamesContext ==
    /\ tx_pc = "text"
    /\ tx_pc' = "codenames_context"
    /\ tx_out' = <<extract_codenames_context(observation)>>
    /\ UNCHANGED observation
    /\ UNCHANGED <<mainVars, workerVars, historyVars, reqVars, sessionVars>>

----------------------------------------------------------------------------
\* build_messages, continued

\* user_prompt_template rendered (lines 165-174) with the two templates of
\* a game, what they are rendered with, and the observation
RenderUserPrompt(game, ctx, obs) ==
    [template |-> "user_prompt_template",
     game |-> game,
     ctx |-> ctx,
     observations |-> Strip(obs)]

\* what {{ n }} renders of an integer that is not negative: its decimal
\* digits
DecimalDigits == <<"0", "1", "2", "3", "4", "5", "6", "7", "8", "9">>

RECURSIVE str(_)
str(n) ==
    IF n < 10 THEN <<DecimalDigits[n + 1]>>
    ELSE str(n \div 10) \o <<DecimalDigits[(n % 10) + 1]>>

\* {% if v %} of a number that may be None: None and 0 are false
TrueNumber(v) == v # None /\ v[1] # 0

\* {% if v %} of a string or a list that may be None: None and the empty
\* one are false
TrueText(v) == v # None /\ v[1] # <<>>

\* fields|join(', ')
JoinFields(fields) ==
    LET F[i \in 0..Len(fields)] ==
          IF i = 0 THEN <<>>
          ELSE IF i = 1 THEN <<fields[1]>>
          ELSE F[i - 1] \o <<",", SP, fields[i]>>
    IN F[Len(fields)]

\* prompt_utils.py line 217
RoundShown(current_round, total_rounds) ==
    IF TrueNumber(current_round) /\ TrueNumber(total_rounds)
    THEN <<"Round", SP>> \o str(current_round[1]) \o <<SP, "of", SP>>
           \o str(total_rounds[1])
    ELSE IF TrueNumber(current_round)
    THEN <<"Round", SP>> \o str(current_round[1])
    ELSE <<"Check observation for round number">>

\* line 218
FieldsShown(fields) ==
    IF TrueText(fields) /\ Len(fields[1]) > 0
    THEN JoinFields(fields[1]) \o <<SP, "(">> \o str(Len(fields[1]))
           \o <<SP, "fields total)">>
    ELSE <<"Multiple labeled fields (see observation)">>

\* line 219
BudgetShown(num_units) ==
    IF TrueNumber(num_units) THEN str(num_units[1]) \o <<SP, "units">>
    ELSE <<"See observation for unit count">>

\* line 220
FieldsNeeded(num_fields) ==
    IF TrueNumber(num_fields) THEN str((num_fields[1] \div 2) + 1)
    ELSE <<"Majority of fields">>

\* line 216
RoleShown(role) == IF TrueText(role) THEN role[1] ELSE <<"Commander">>

\* lines 215-221 rendered with the values v that lines 46-53 pass
colonel_blotto_game_state_and_guidelines(v) ==
    <<"- Your role:", SP>> \o RoleShown(v.role)
      \o <<LF, "- Current round:", SP>>
      \o RoundShown(v.current_round, v.total_rounds)
      \o <<LF, "- Available fields:", SP>> \o FieldsShown(v.fields)
      \o <<LF, "- Your unit budget:", SP>> \o BudgetShown(v.num_units)
      \o <<LF, "- Fields needed to win round:", SP>>
      \o FieldsNeeded(v.num_fields)

\* line 50: len(fields) if fields else None
NumFields(fields) == IF TrueText(fields) THEN Some(Len(fields[1])) ELSE None

\* lines 44-53 and 58: the state section of the user message
ColonelBlottoGameState(ctx) ==
    Strip(colonel_blotto_game_state_and_guidelines(
            [role |-> ctx.role,
             num_units |-> ctx.num_units,
             fields |-> ctx.fields,
             num_fields |-> NumFields(ctx.fields),
             current_round |-> ctx.current_round,
             total_rounds |-> ctx.total_rounds]))

\* lines 37-60 with the context extracted at line 37
ColonelBlottoRendered(ctx, obs) ==
    RenderUserPrompt("colonel_blotto", ctx, obs)
      @@ [game_state_and_guidelines |-> ColonelBlottoGameState(ctx)]

\* lines 36-61
ColonelBlottoUserMessage(obs) ==
    [raised |-> None,
     value |-> Some(ColonelBlottoRendered(extract_colonel_blotto_context(obs),
                                          obs))]

\* lines 64-82: get_codenames_role is called first
CodenamesUserMessage(obs) ==
    LET role == get_codenames_role(obs)
    IN IF role.raised # None THEN [raised |-> role.raised, value |-> None]
       ELSE [raised |-> None,
             value |-> Some(RenderUserPrompt(
                              "codenames",
                              [role |-> role.value]
                                @@ extract_codenames_context(obs),
                              obs))]

\* lines 85-121
ThreePlayerIpdUserMessage(obs) ==
    [raised |-> None,
     value |-> Some(RenderUserPrompt("three_player_ipd",
                                     [phase |-> ipd_detect_phase(obs)],
                                     obs))]

\* Faulty variant of build_messages: the observation is not normalized.
BuildMessagesRaw(text) ==
    LET obs == text
        user_message ==
          IF is_colonel_blotto(obs) THEN ColonelBlottoUserMessage(obs)
          ELSE IF is_codenames(obs) THEN CodenamesUserMessage(obs)
          ELSE IF is_three_player_ipd(obs) THEN ThreePlayerIpdUserMessage(obs)
          ELSE [raised |-> None, value |-> Some(Strip(obs))]
    IN IF user_message.raised # None
       THEN [raised |-> user_message.raised, value |-> None]
       ELSE [raised |-> None,
             value |-> Some(<<[role |-> "system",
                               content |-> Strip(SystemPromptTemplate)],
                              [role |-> "user",
                               content |-> user_message.value[1]]>>)]

\* lines 17-23: the branch taken for the normalized observation, and the
\* user message it gives
UserMessage(obs) ==
    IF is_colonel_blotto(obs)
    THEN [template |-> "colonel_blotto",
          message |-> ColonelBlottoUserMessage(obs)]
    ELSE IF is_codenames(obs)
    THEN [template |-> "codenames", message |-> CodenamesUserMessage(obs)]
    ELSE IF is_three_player_ipd(obs)
    THEN [template |-> "three_player_ipd",
          message |-> ThreePlayerIpdUserMessage(obs)]
    ELSE [template |-> "observation",
          message |-> [raised |-> None, value |-> Some(Strip(obs))]]

\* lines 15-33: what is raised, or else the messages returned (the user
\* message of a game is stripped where it is rendered, lines 61, 82, 121;
\* the observation is stripped at line 31)
build_messages(text) ==
    LET user_message ==
          UserMessage(remove_trailing_spaces_keep_blank_lines(text)).message
    IN IF user_message.raised # None
       THEN [raised |-> user_message.raised, value |-> None]
       ELSE [raised |-> None,
             value |-> Some(<<[role |-> "system",
                               content |-> Strip(SystemPromptTemplate)],
                              [role |-> "user",
                               content |-> user_message.value[1]]>>)]

\* agent.py line 66: the call of build_messages
BuildMessages ==
    /\ tx_pc = "text"
    /\ tx_pc' = "built"
    /\ tx_out' = <<build_messages(observation)>>
    /\ UNCHANGED observation
    /\ UNCHANGED <<mainVars, workerVars, historyVars, reqVars, sessionVars>>

\* agent.py lines 16-37
GENERATION_PARAMS ==
    [Default |-> [temperature |-> "1.0", top_p |-> "1.0",
                  extra_body |-> None],
     Codenames |-> [temperature |-> "1.0", top_p |-> "1.0",
                    extra_body |-> None],
     ColonelBlotto |-> [temperature |-> "1.0", top_p |-> "1.0",
                        extra_body |-> None],
     ThreePlayerIPD |-> [temperature |-> "0.6", top_p |-> "0.95",
                         extra_body |-> Some([top_k |-> "20",
                                              min_p |-> "0.0"])]]

\* agent.py line 70: GENERATION_PARAMS.get(game_name, GENERATION_PARAMS["Default"])
GenerationParams(game_name) ==
    IF game_name \in DOMAIN GENERATION_PARAMS
    THEN GENERATION_PARAMS[game_name]
    ELSE GENERATION_PARAMS["Default"]

\* lines 67-70 once the messages are built
Prepared(messages, template, game_name) ==
    [messages |-> messages,
     template |-> template,
     game_name |-> game_name,
     generation_params |-> GenerationParams(game_name)]

\* lines 66-70 for what build_messages gave
PreparedFrom(built, text) ==
    IF built.raised # None THEN built
    ELSE Prepared(built.value[1],
                  UserMessage(
                    remove_trailing_spaces_keep_blank_lines(text)).template,
                  ExtractGameGuideline(text))

\* agent.py lines 66-70: __call__ up to the request; an error of
\* build_messages leaves __call__ at line 66
AgentPrepares ==
    /\ tx_pc = "text"
    /\ tx_pc' = IF build_messages(observation).raised # None
                THEN "call_raised" ELSE "prepared"
    /\ tx_out' = <<PreparedFrom(build_messages(observation), observation)>>
    /\ UNCHANGED observation
    /\ UNCHANGED <<mainVars, workerVars, historyVars, reqVars, sessionVars>>

----------------------------------------------------------------------------
\* play_game step by step (online_play_stage_2.py lines 318-368)

\* the players env.get_observation names
PlayerIds == {0, 1}

\* no session is modelled
NoSession ==
    /\ gs_pc = "idle"
    /\ player_id = None
    /\ done = FALSE
    /\ log_steps = <<>>
    /\ log_end = None
    /\ log_file = None
    /\ env_turns = <<>>
    /\ env_closed = 0
    /\ log_writes = 0
    /\ raised_at = None

\* lines 318-331: the environment is reset, the log is created with no
\* step, the path is chosen, done is False
InitSession ==
    /\ gs_pc = "observe"
    /\ player_id = None
    /\ done = FALSE
    /\ log_steps = <<>>
    /\ log_end = None
    /\ log_file = None
    /\ env_turns = <<>>
    /\ env_closed = 0
    /\ log_writes = 0
    /\ raised_at = None

\* lines 343-350
GameStep(player, info) == [player_id |-> player, step_info |-> info]

\* Faulty variant of AfterAppend: the loop is left after the first step.
AfterAppendOnce(is_done) == "close"

\* line 332: while not done
AfterAppend(is_done) == IF is_done THEN "close" ELSE "observe"

\* lines 333-337: env.get_observation
GetObservation ==
    /\ gs_pc = "observe"
    /\ \E p \in PlayerIds : player_id' = Some(p)
    /\ gs_pc' = "agent"
    /\ UNCHANGED <<done, log_steps, log_end, log_file, env_turns, env_closed,
                   log_writes, raised_at>>
    /\ UNCHANGED <<mainVars, workerVars, historyVars, reqVars, textVars>>

\* lines 339-341: agent(observation) returns
AgentActs ==
    /\ gs_pc = "agent"
    /\ gs_pc' = "step"
    /\ UNCHANGED <<player_id, done, log_steps, log_end, log_file, env_turns,
                   env_closed, log_writes, raised_at>>
    /\ UNCHANGED <<mainVars, workerVars, historyVars, reqVars, textVars>>

\* line 342: env.step returns done and the step info (here the number of
\* the step)
EnvStep ==
    /\ gs_pc = "step"
    /\ env_turns' = Append(env_turns, player_id[1])
    /\ \E d \in BOOLEAN :
         /\ Len(env_turns') >= MaxTurns => d
         /\ done' = d
    /\ gs_pc' = "append"
    /\ UNCHANGED <<player_id, log_steps, log_end, log_file, env_closed,
                   log_writes, raised_at>>
    /\ UNCHANGED <<mainVars, workerVars, historyVars, reqVars, textVars>>

\* lines 343-351, then the test of line 332
AppendStep ==
    /\ gs_pc = "append"
    /\ log_steps' = Append(log_steps, GameStep(player_id[1], Len(env_turns)))
    /\ gs_pc' = AfterAppend(done)
    /\ UNCHANGED <<player_id, done, log_end, log_file, env_turns, env_closed,
                   log_writes, raised_at>>
    /\ UNCHANGED <<mainVars, workerVars, historyVars, reqVars, textVars>>

\* lines 352-359: env.close returns the rewards
CloseEnv ==
    /\ gs_pc = "close"
    /\ env_closed' = env_closed + 1
    /\ gs_pc' = "finalize"
    /\ UNCHANGED <<player_id, done, log_steps, log_end, log_file, env_turns,
                   log_writes, raised_at>>
    /\ UNCHANGED <<mainVars, workerVars, historyVars, reqVars, textVars>>

\* lines 362-364
Finalize ==
    /\ gs_pc = "finalize"
    /\ log_end' = Some([end_time |-> "now", rewards |-> "rewards",
                        game_info |-> "game_info"])
    /\ gs_pc' = "write"
    /\ UNCHANGED <<player_id, done, log_steps, log_file, env_turns,
                   env_closed, log_writes, raised_at>>
    /\ UNCHANGED <<mainVars, workerVars, historyVars, reqVars, textVars>>

\* lines 367-368: the file is opened with "w" and the log is dumped
WriteLog ==
    /\ gs_pc = "write"
    /\ log_file' = Some([steps |-> log_steps, end |-> log_end])
    /\ log_writes' = log_writes + 1
    /\ gs_pc' = "returned"
    /\ UNCHANGED <<player_id, done, log_steps, log_end, env_turns,
                   env_closed, raised_at>>
    /\ UNCHANGED <<mainVars, workerVars, historyVars, reqVars, textVars>>

\* an exception of env.get_observation, agent, env.step, env.close or
\* open leaves play_game
SessionRaises ==
    /\ gs_pc \in {"observe", "agent", "step", "close", "write"}
    /\ raised_at' = Some(gs_pc)
    /\ gs_pc' = "raised"
    /\ UNCHANGED <<player_id, done, log_steps, log_end, log_file, env_turns,
                   env_closed, log_writes>>
    /\ UNCHANGED <<mainVars, workerVars, historyVars, reqVars, textVars>>

\* line 368: json.dump raises after line 367 has opened (and emptied) the
\* file
DumpRaises ==
    /\ gs_pc = "write"
    /\ log_file' = Some([steps |-> <<>>, end |-> None])
    /\ raised_at' = Some("dump")
    /\ gs_pc' = "raised"
    /\ UNCHANGED <<player_id, done, log_steps, log_end, env_turns,
                   env_closed, log_writes>>
    /\ UNCHANGED <<mainVars, workerVars, historyVars, reqVars, textVars>>

----------------------------------------------------------------------------
\* Specifications

\* The controlling process and its workers; no request is modelled.
Init ==
    /\ InitSystem(AllTracks \cup {"All"}, MaxGamesOptions)
    /\ rq_pc = "idle"
    /\ InitRequest
    /\ InitText({<<>>})
    /\ NoSession

Next ==
    \/ \E w \in Workers : LoopTop(w)
    \/ \E w \in Workers : PlayGameSetup(w)
    \/ \E w \in Workers : PlayGameReturns(w)
    \/ \E w \in Workers : PlayGameRaises(w)
    \/ HandleShutdown
    \/ MainExit
    \/ Tick

Spec == Init /\ [][Next]_vars

\* Each worker keeps running: a play_game call returns or raises.
FairSpec == Spec /\ \A w \in AllTracks : WF_vars(WorkerStep(w))

\* main from the point where the signal handlers are installed (line 197):
\* no worker is started yet.
InitMain ==
    /\ tracks \in AllTracks \cup {"All"}
    /\ processes = <<>>
    /\ max_games \in MaxGamesOptions
    /\ stop_event = FALSE
    /\ termination_signals_received = 0
    /\ main_pc = "spawning"
    /\ now = 0
    /\ files = [p \in Paths |-> None]
    /\ pc = [w \in AllTracks |-> "absent"]
    /\ games_played = [w \in AllTracks |-> 0]
    /\ played_after_shutdown = [w \in AllTracks |-> 0]
    /\ start_time = [w \in AllTracks |-> None]
    /\ timestamp = [w \in AllTracks |-> None]
    /\ games_started = [w \in AllTracks |-> 0]
    /\ started_after_stop = [w \in AllTracks |-> 0]
    /\ flag_game = [w \in AllTracks |-> "none"]
    /\ last_outcome = [w \in AllTracks |-> "none"]
    /\ stop_reason = [w \in AllTracks |-> "none"]
    /\ rq_pc = "idle"
    /\ InitRequest
    /\ InitText({<<>>})
    /\ NoSession

NextMain ==
    \/ StartProcess
    \/ AppendProcess
    \/ \E w \in Workers : LoopTop(w)
    \/ \E w \in Workers : PlayGameSetup(w)
    \/ \E w \in Workers : PlayGameReturns(w)
    \/ \E w \in Workers : PlayGameRaises(w)
    \/ HandleShutdown
    \/ MainExit
    \/ Tick

SpecMain == InitMain /\ [][NextMain]_vars

\* One session of play_game, from the loop of line 332 on.
InitGame ==
    /\ InitSystem({"Generalization"}, {None})
    /\ rq_pc = "idle"
    /\ InitRequest
    /\ InitText({<<>>})
    /\ InitSession

NextGame ==
    \/ GetObservation
    \/ AgentActs
    \/ EnvStep
    \/ AppendStep
    \/ CloseEnv
    \/ Finalize
    \/ WriteLog
    \/ SessionRaises
    \/ DumpRaises

SpecGame == InitGame /\ [][NextGame]_vars

\* One invocation of _run_request; the workers stand still.
InitReq ==
    /\ InitSystem({"Generalization"}, {None})
    /\ rq_pc = "attempt"
    /\ InitRequest
    /\ InitText({<<>>})
    /\ NoSession

NextReq ==
    \/ RunRequestAttempt
    \/ RunRequestAfterFailure
    \/ AgentReturns

SpecReq == InitReq /\ [][NextReq]_vars

\* The texts the normalizer is tried with: every text of at most MaxChars
\* characters over blanks, line-break characters and one other character.
NormAlphabet == {SP, TAB, CR, LF, "x"}

TextsUpTo(alphabet, n) == UNION { [1..k -> alphabet] : k \in 0..n }

\* The normalizer applied once, then again to its own result.
InitNorm ==
    /\ InitSystem({"Generalization"}, {None})
    /\ rq_pc = "idle"
    /\ InitRequest
    /\ InitText(TextsUpTo(NormAlphabet, MaxChars))
    /\ NoSession

NextNorm == Normalize

SpecNorm == InitNorm /\ [][NextNorm]_vars

\* Lines of the observations tried.
BlottoRoleLine ==
    <<"You", SP, "are", SP, "Commander Alpha", SP,
      "in a game of ColonelBlotto.">>
BlottoNameLine == <<"Colonel", SP, "Blotto">>
CodenamesLine ==
    <<"You", SP, "are", SP, "playing Codenames", ",", SP,
      "a 2v2 word deduction game.">>
CodenamesRoleLine ==
    <<"You", SP, "are", SP, "Player", SP, "1", ",", SP, "the", SP,
      "Spymaster", SP, "for", SP, "Red", SP, "team.">>
IpdLine ==
    <<"You", SP, "are", SP, "Player", SP, "1", SP, "in", SP, "a", SP,
      "3-player", SP, "Iterated", SP, "Prisoner's", SP, "Dilemma">>
TokenLine == <<"[", "1", SP, "cooperate", "]">>
\* a long line of other text, with a blank and a carriage return at its end
FillerLine == <<"Lorem ipsum", SP, CR>>
BlankLine == <<TAB>>

\* the lines joined by line feeds
JoinLines(lines) ==
    LET F[i \in 0..Len(lines)] ==
          IF i = 0 THEN <<>>
          ELSE IF i = 1 THEN lines[1]
          ELSE F[i - 1] \o <<LF>> \o lines[i]
    IN F[Len(lines)]

\* every text of at most MaxLines lines of the library
Observations(library) ==
    { JoinLines(ls) : ls \in UNION { [1..k -> library] : k \in 0..MaxLines } }

\* The observations the classifier and build_messages are tried with.
GameLines ==
    {BlottoRoleLine, BlottoNameLine, CodenamesLine, CodenamesRoleLine,
     IpdLine, TokenLine, FillerLine, BlankLine}

InitObs ==
    /\ InitSystem({"Generalization"}, {None})
    /\ rq_pc = "idle"
    /\ InitRequest
    /\ InitText(Observations(GameLines))
    /\ NoSession

NextObs ==
    \/ Classify
    \/ BuildMessages
    \/ AgentPrepares

SpecObs == InitObs /\ [][NextObs]_vars

\* The observations extract_colonel_blotto_context is tried with.
RoundLine(n) ==
    <<"===", SP, "COLONEL", SP, "BLOTTO", SP, "-", SP, "Round", SP, n, "/",
      "5", SP, "===">>
BareRoundLine == <<"Round", SP, "2", "/", "5">>
UnitsLine(digits) == <<"Units to allocate:", SP>> \o digits
FieldsLine == <<"Available fields:", SP, "A", ",", SP, "B", ",", SP, "C">>
LowerFieldsLine == <<"available fields:", SP, "a", ",", "b">>

BlottoLines ==
    {RoundLine("1"), RoundLine("2"), BareRoundLine, UnitsLine(<<"2", "0">>),
     <<"units to allocate:", "5">>, FieldsLine, LowerFieldsLine}

InitBlotto ==
    /\ InitSystem({"Generalization"}, {None})
    /\ rq_pc = "idle"
    /\ InitRequest
    /\ InitText(Observations(BlottoLines))
    /\ NoSession

NextBlotto == BlottoContext

SpecBlotto == InitBlotto /\ [][NextBlotto]_vars

\* The observations the Colonel Blotto user message is built from: the role
\* line, then at most MaxLines lines of the board.
CommanderLine ==
    <<"You", SP, "are", SP, "Commander", SP, "in a game of ColonelBlotto.">>
BoardRoundLine(n) ==
    <<"===", SP, "COLONEL", SP, "BLOTTO", SP, "-", SP, "Round", SP, n, "/",
      "3", SP, "===">>

BoardLines ==
    {BoardRoundLine("1"), BoardRoundLine("0"), UnitsLine(<<"2", "0">>),
     UnitsLine(<<"0">>), FieldsLine, LowerFieldsLine}

InitBoard ==
    /\ InitSystem({"Generalization"}, {None})
    /\ rq_pc = "idle"
    /\ InitRequest
    /\ InitText({ JoinLines(<<CommanderLine, board>>) :
                    board \in Observations(BoardLines) })
    /\ NoSession

NextBoard == BuildMessages

SpecBoard == InitBoard /\ [][NextBoard]_vars

\* The observations extract_codenames_context is tried with.
OperativeLine(team) ==
    <<"You", SP, "are", SP, "Player", SP, "1", ",", SP, "the", SP,
      "Operative", SP, "for", SP, team, SP, "team.">>
SubmittedLine(team, player, word, number) ==
    <<"[GAME]", SP, "Spymaster", SP, "of", SP, team, SP, "team,", SP,
      "Player", SP, player, ",", SP, "submitted", SP, "[", word, SP, number,
      "].">>

ClueLines ==
    {OperativeLine("Red"), OperativeLine("blue"),
     SubmittedLine("Red", "0", "ocean", "2"),
     SubmittedLine("red", "0", "river", "1"),
     SubmittedLine("Blue", "2", "Fire", "3"),
     <<"Spymaster", SP, "of", SP, "Red", SP, "team,", SP, "submitted", SP,
       "[", "ocean", "].">>}

InitClue ==
    /\ InitSystem({"Generalization"}, {None})
    /\ rq_pc = "idle"
    /\ InitRequest
    /\ InitText(Observations(ClueLines))
    /\ NoSession

NextClue == CodenamesContext

SpecClue == InitClue /\ [][NextClue]_vars

\* The observations _ipd_detect_phase is tried with.
ConverseLine ==
    <<"[GAME]", SP, "You can converse freely", SP, "for the next 2 rounds.">>
DecideLine == <<"[game]", SP, "Round 1:", SP, "submit your decisions", ".">>
BothLine ==
    <<"[GAME]", SP, "submit your decisions", ".", SP,
      "You can converse freely">>
PlayerDecideLine == <<"[Player 1]", SP, "I will", SP, "submit your decisions">>

PhaseLines ==
    {ConverseLine, DecideLine, BothLine, PlayerDecideLine, TokenLine,
     FillerLine, BlankLine}

InitPhase ==
    /\ InitSystem({"Generalization"}, {None})
    /\ rq_pc = "idle"
    /\ InitRequest
    /\ InitText(Observations(PhaseLines))
    /\ NoSession

NextPhase == DetectPhase

SpecPhase == InitPhase /\ [][NextPhase]_vars

----------------------------------------------------------------------------
\* Properties of start_worker (checked under Spec and FairSpec)

InGame(w) == pc[w] \in {"play_game", "playing"}

\* C1, as stated: when the stop flag is set while a worker is in a game,
\* the worker finishes that game and then plays exactly one more game
\* before it stops on the shutdown check.
C1_OneMoreAfterInFlight ==
    \A w \in AllTracks :
        (flag_game[w] \in {"returned", "raised"}
           /\ stop_reason[w] = "shutdown")
        => started_after_stop[w] = 1

\* C1, amended: when the stop flag is set while a worker is in a game and
\* that game returns normally, the game counts as the one last game: the
\* worker starts no further game and stops at the next check at the top of
\* the loop (on the shutdown check, or on the max-games check before it).
C1_InFlightIsLastGame ==
    \A w \in AllTracks :
        flag_game[w] = "returned"
        => /\ started_after_stop[w] = 0
           /\ played_after_shutdown[w] = 1
           /\ pc[w] \in {"loop_top", "stopped", "killed"}
           /\ pc[w] = "stopped"
                => stop_reason[w] \in {"shutdown", "max_games"}

C1_Witness ==
    \E w \in AllTracks :
        /\ flag_game[w] = "returned"
        /\ pc[w] = "stopped"
        /\ stop_reason[w] = "shutdown"
        /\ max_games = None

\* C2: once the stop flag is set, a worker starts at most one play_game
\* call beyond the game that was in flight, whatever the outcomes of the
\* games, and after that call it leaves the loop at the next check.
C2_AtMostOneMoreGame ==
    \A w \in AllTracks :
        /\ started_after_stop[w] <= 1
        /\ (pc[w] = "loop_top" /\ started_after_stop[w] = 1)
             => LoopDecision(max_games, games_played[w], stop_event,
                             played_after_shutdown[w]) # "play"

\* C3: no exception of play_game other than the registration failure
\* escapes the loop of start_worker or stops the worker.
C3_NoExceptionEscapes ==
    \A w \in AllTracks :
        /\ pc[w] # "crashed"
        /\ last_outcome[w] \in {"value_error", "exception"}
             => stop_reason[w] \notin {"exception", "registration"}

\* C4: after the first termination signal has set the stop flag, every
\* worker eventually leaves its loop, whatever the outcomes of its games.
C4_EveryWorkerStops ==
    stop_event ~> (\A w \in AllTracks : ~IsAlive(w))

\* C8: a play_game call that raises a ValueError whose text contains
\* "Model registration failed" ends the loop at once: the worker is stopped
\* and plays no further game, whatever the stop flag and max_games are.
C8_RegistrationFailureIsTerminal ==
    \A w \in AllTracks :
        last_outcome[w] = "registration_failure"
        => /\ pc[w] = "stopped"
           /\ stop_reason[w] = "registration"

C8_Witness ==
    \E w \in AllTracks :
        /\ last_outcome[w] = "registration_failure"
        /\ pc[w] = "stopped"
        /\ ~stop_event
        /\ max_games # None
        /\ games_played[w] = 1
        /\ games_played[w] < max_games[1]

C9_State ==
    \A w \in AllTracks :
        max_games # None
        => /\ games_played[w] <= max_games[1]
           /\ InGame(w) => games_played[w] < max_games[1]
           /\ (pc[w] = "stopped" /\ games_played[w] >= max_games[1])
                => stop_reason[w] = "max_games"

C9_Step ==
    \A w \in AllTracks :
        games_played'[w] # games_played[w]
        => /\ pc[w] = "playing"
           /\ last_outcome'[w] = "returned"
           /\ games_played'[w] = games_played[w] + 1

\* C9: with max_games = N no game is started once games_played >= N, the
\* worker stops at that check, which comes before the shutdown check, and
\* only a game that returned normally increments games_played, so at most
\* N games complete and failed games do not count.
C9_MaxGamesLimit == []C9_State /\ [][C9_Step]_vars

C9_Witness ==
    \E w \in AllTracks :
        /\ max_games # None
        /\ stop_reason[w] = "max_games"
        /\ games_started[w] > max_games[1]
        /\ stop_event
        /\ played_after_shutdown[w] >= 1

\* C10: the log of every completed session stays on disk under its own
\* path: no session, of the same worker or of the other one, writes to it.
C10_NoLogOverwritten ==
    \A w \in AllTracks :
        \A n \in 0..(games_played[w] - 1) :
            \E p \in Paths : files[p] = Some(<<w, n>>)

----------------------------------------------------------------------------
\* Properties of _run_request (checked under SpecReq)

\* A response the caller can use: not None, a non-empty choice list, and a
\* first choice whose message and content are not None.
WellFormed(response) ==
    /\ response # None
    /\ Len(response[1].choices) > 0
    /\ response[1].choices[1].message # None
    /\ response[1].choices[1].message[1].content # None

AttemptFailed(out) == out.exc # None \/ ~WellFormed(out.response)

\* _run_request has returned (and __call__ may have gone on)
Returned == rq_pc \in {"returned", "responded"}

Terminated == Returned \/ rq_pc = "raised"

\* C5: two failed attempts and a valid third response: that response is
\* returned; three failed attempts: the call raises the cause of the third,
\* its exception if it raised, else ValueError "No completion found in the
\* response".
C5_RetryResult ==
    (Len(rq_calls) = 3 /\ AttemptFailed(rq_calls[1])
       /\ AttemptFailed(rq_calls[2]))
    => IF AttemptFailed(rq_calls[3])
       THEN /\ rq_pc \in {"failed", "raised"}
            /\ rq_returned = None
            /\ rq_pc = "raised"
                 => rq_raised =
                      IF rq_calls[3].exc # None THEN rq_calls[3].exc
                      ELSE Some([type |-> "ValueError",
                                 msg |-> <<"No", "completion", "found", "in",
                                           "the", "response">>])
       ELSE /\ Returned
            /\ rq_returned = Some(rq_calls[3].response)
            /\ rq_raised = None

C5_Witness ==
    /\ rq_pc = "raised"
    /\ Len(rq_calls) = 3
    /\ rq_calls[1].exc # None
    /\ rq_calls[2].exc # None
    /\ rq_calls[2].exc # rq_calls[1].exc
    /\ rq_calls[3].exc = None

\* C6: at most 3 calls of the endpoint, none after the first valid
\* response, and only a valid response is returned.
C6_CallBound ==
    /\ Len(rq_calls) <= 3
    /\ \A i \in 1..(Len(rq_calls) - 1) : AttemptFailed(rq_calls[i])
    /\ rq_returned # None <=> Returned
    /\ Returned
         => /\ WellFormed(rq_returned[1])
            /\ rq_returned[1] = rq_calls[Len(rq_calls)].response
    /\ \A i \in 1..Len(rq_calls) :
         (rq_calls[i].exc = None /\ ~WellFormed(rq_calls[i].response))
         => rq_returned # Some(rq_calls[i].response)

C6_Witness ==
    /\ rq_pc = "returned"
    /\ Len(rq_calls) = 3
    /\ rq_calls[1].exc = None
    /\ rq_calls[1].response # None
    /\ rq_calls[2].exc = None

\* C7: each sleep lasts 1 second and follows a failed first or second
\* attempt, each later attempt follows such a sleep, and a finished
\* invocation has slept once per failed attempt among the first two: never
\* after the third attempt or after a valid response.
C7_SleepBetweenAttempts ==
    /\ \A i \in 1..Len(rq_sleeps) :
         /\ rq_sleeps[i] = i
         /\ i <= 2
         /\ AttemptFailed(rq_calls[i])
    /\ \A k \in 2..Len(rq_calls) : Len(rq_sleeps) >= k - 1
    /\ rq_slept = Len(rq_sleeps) * 1
    /\ Terminated
         => Len(rq_sleeps) =
              Cardinality({i \in 1..Len(rq_calls) :
                             i <= 2 /\ AttemptFailed(rq_calls[i])})

C7_Witness ==
    /\ rq_pc = "raised"
    /\ Len(rq_calls) = 3
    /\ Len(rq_sleeps) = 2
    /\ rq_slept = 2

\* C22: the RuntimeError "Failed to get a valid completion after retries" is
\* never raised: every failed attempt leaves a cause in last_exception, the
\* loop ends without returning only after three failed attempts, and the
\* error then raised is last_exception.
C22_RetriesErrorUnreachable ==
    /\ rq_raised # Some(RetriesError)
    /\ rq_pc = "failed"
         => /\ last_exception # None
            /\ \A i \in 1..Len(rq_calls) : AttemptFailed(rq_calls[i])
    /\ rq_pc = "raised"
         => /\ Len(rq_calls) = MaxAttempts
            /\ \A i \in 1..MaxAttempts : AttemptFailed(rq_calls[i])
            /\ last_exception # None
            /\ rq_raised = last_exception

\* three responses without a completion and no exception at all
C22_Witness ==
    /\ rq_pc = "raised"
    /\ Len(rq_calls) = 3
    /\ \A i \in 1..3 : rq_calls[i].exc = None
    /\ rq_calls[1].response = None
    /\ rq_raised = Some(NoCompletionError)

----------------------------------------------------------------------------
\* Properties of the text functions

\* the line breaks of a text, in order, with the other characters that are
\* not blanks
WithoutBlanks(text) ==
    RemoveAt(text, { i \in 1..Len(text) : text[i] \in Blanks })

\* C16: the normalizer applied to its own result returns that result, and
\* what it returns keeps, in order, every line-break character and every
\* other non-blank character that lies between the first and the last
\* non-whitespace character of the text (no line break between two
\* non-whitespace characters is removed, no blank line is collapsed).
C16_NormalizerIdempotent ==
    /\ Len(tx_out) >= 1 => WithoutBlanks(tx_out[1]) = WithoutBlanks(Strip(observation))
    /\ Len(tx_out) = 2 => tx_out[2] = tx_out[1]

\* C11: classification is total: for every observation
\* _extract_game_game_guideline returns, without raising, exactly one of
\* ColonelBlotto, Codenames, ThreePlayerIPD and Default.  (It reads nothing
\* but its argument, so two calls on one observation agree.)
C11_ClassificationTotal ==
    tx_pc = "classified" => /\ Len(tx_out) = 1
                            /\ tx_out[1] \in GameKinds

C11_Witness ==
    /\ tx_pc = "classified"
    /\ tx_out = <<"Default">>
    /\ observation # <<>>
    /\ \E i \in 1..Len(observation) : observation[i] \notin Whitespace

\* the detectors in priority order, each with the kind it stands for
Detectors(obs) ==
    <<[kind |-> "ColonelBlotto", matches |-> is_colonel_blotto(obs)],
      [kind |-> "Codenames", matches |-> is_codenames(obs)],
      [kind |-> "ThreePlayerIPD", matches |-> is_three_player_ipd(obs)]>>

\* C12: the kind returned is that of the first detector, in the order
\* ColonelBlotto, Codenames, ThreePlayerIPD, that matches the (normalized)
\* observation, whatever later detectors match as well; it is Default when
\* none matches.
C12_FirstMatchDecides ==
    tx_pc = "classified" =>
        LET d == Detectors(remove_trailing_spaces_keep_blank_lines(observation))
            hits == { i \in 1..Len(d) : d[i].matches }
        IN IF hits = {} THEN tx_out[1] = "Default"
           ELSE tx_out[1] = d[SetMin(hits)].kind

\* Blotto text that also holds a "[1 cooperate]" token is ColonelBlotto
C12_Witness ==
    /\ tx_pc = "classified"
    /\ tx_out[1] = "ColonelBlotto"
    /\ is_colonel_blotto(observation)
    /\ Search(IpdTokenPattern, observation)

\* the occurrence of pat with the greatest offset in the text
LatestOccurrence(pat, text) ==
    MatchAt(pat, 1, text, SetMax(Starts(pat, text)))

GameMarkers(text, phrase) ==
    { i \in 1..Len(text) :
        /\ i = 1 \/ text[i - 1] = LF
        /\ Fold(text[i]) = "[GAME]"
        /\ \E j \in (i + 1)..Len(text) :
             /\ Fold(text[j]) = phrase
             /\ \A k \in i..j : text[k] # LF }

\* a [<id> cooperate|defect] token lies within the last n characters
TokenWithinLast(text, n) ==
    \E i \in Starts(IpdTokenPattern, text) : CharsFrom(text, i) <= n

\* C15: the phase is "decision" exactly when (a) a "submit your decisions"
\* game marker exists and the last one starts after the last "You can
\* converse freely" game marker, or no such marker exists, or (b) there is
\* no marker of either kind and a decision token lies within the last 1000
\* characters; otherwise it is "conversation".
C15_PhaseDetection ==
    tx_pc = "phase" =>
        LET dec == GameMarkers(observation, "submit your decisions")
            conv == GameMarkers(observation, "You can converse freely")
            a == /\ dec # {}
                 /\ conv = {} \/ SetMax(dec) > SetMax(conv)
            b == /\ dec = {}
                 /\ conv = {}
                 /\ TokenWithinLast(observation, 1000)
        IN /\ tx_out[1] \in {"decision", "conversation"}
           /\ tx_out[1] = "decision" <=> (a \/ b)

\* a decision token that occurs only earlier than the last 1000 characters
C15_Witness ==
    /\ tx_pc = "phase"
    /\ tx_out[1] = "conversation"
    /\ GameMarkers(observation, "submit your decisions") = {}
    /\ GameMarkers(observation, "You can converse freely") = {}
    /\ Search(IpdTokenPattern, observation)

\* C13: for an observation classified as Codenames that does not hold the
\* role marker "You are Player <n>, the Spymaster|Operative for",
\* build_messages raises a ValueError and returns nothing.
C13_MissingRoleRaises ==
    (/\ tx_pc = "built"
     /\ ExtractGameGuideline(observation) = "Codenames"
     /\ ~Search(CodenamesRolePattern, observation))
    => /\ tx_out[1].raised # None
       /\ tx_out[1].raised[1].type = "ValueError"
       /\ tx_out[1].value = None

C13_Witness ==
    /\ tx_pc = "built"
    /\ ExtractGameGuideline(observation) = "Codenames"
    /\ ~Search(CodenamesRolePattern, observation)
    /\ tx_out[1].raised = Some(CodenamesRoleError)

\* C17: when build_messages returns, it returns exactly two messages: the
\* first has role "system" and the static system text, the second has role
\* "user"; for an observation classified Default the content of the second
\* is the normalized observation.
C17_TwoMessages ==
    (tx_pc = "built" /\ tx_out[1].raised = None) =>
        LET messages == tx_out[1].value[1]
        IN /\ Len(messages) = 2
           /\ messages[1].role = "system"
           /\ messages[1].content = SystemPromptTemplate
           /\ messages[2].role = "user"
           /\ ExtractGameGuideline(observation) = "Default" =>
                messages[2].content
                  = remove_trailing_spaces_keep_blank_lines(observation)

\* a Default observation that the normalizer changes
C17_Witness ==
    /\ tx_pc = "built"
    /\ tx_out[1].raised = None
    /\ ExtractGameGuideline(observation) = "Default"
    /\ tx_out[1].value[1][2].content # observation
    /\ tx_out[1].value[1][2].content # <<>>

\* the user message build_messages returned for a Colonel Blotto observation
BlottoMessageBuilt ==
    /\ tx_pc = "built"
    /\ tx_out[1].raised = None
    /\ tx_out[1].value[1][2].content.game = "colonel_blotto"

\* the lines of a text (split at the line feeds)
LinesOf(text) ==
    LET breaks == { i \in 1..Len(text) : text[i] = LF } \cup {0, Len(text) + 1}
    IN { SubSeq(text, i + 1, j - 1) :
           <<i, j>> \in { pr \in breaks \X breaks :
                            /\ pr[1] < pr[2]
                            /\ \A k \in breaks : ~(pr[1] < k /\ k < pr[2]) } }

\* C21: when n >= 1 fields, a unit budget u and a round marker r/t are
\* extracted from a Colonel Blotto observation, the state section of the user
\* message shows "Round r of t", the fields followed by "(n fields total)",
\* "u units" and "Fields needed to win round: floor(n/2)+1".
C21_BlottoStateRendered ==
    BlottoMessageBuilt =>
      LET content == tx_out[1].value[1][2].content
          ctx == content.ctx
          shown == LinesOf(content.game_state_and_guidelines)
      IN (/\ ctx.fields # None
          /\ ctx.num_units # None
          /\ ctx.current_round # None
          /\ ctx.total_rounds # None
          /\ Len(ctx.fields[1]) >= 1)
         => /\ (<<"- Current round:", SP, "Round", SP>>
                  \o str(ctx.current_round[1]) \o <<SP, "of", SP>>
                  \o str(ctx.total_rounds[1])) \in shown
            /\ (<<"- Available fields:", SP>> \o JoinFields(ctx.fields[1])
                  \o <<SP, "(">> \o str(Len(ctx.fields[1]))
                  \o <<SP, "fields total)">>) \in shown
            /\ (<<"- Your unit budget:", SP>> \o str(ctx.num_units[1])
                  \o <<SP, "units">>) \in shown
            /\ (<<"- Fields needed to win round:", SP>>
                  \o str((Len(ctx.fields[1]) \div 2) + 1)) \in shown

\* the game kind a branch of build_messages stands for
KindOfTemplate ==
    [colonel_blotto |-> "ColonelBlotto", codenames |-> "Codenames",
     three_player_ipd |-> "ThreePlayerIPD", observation |-> "Default"]

\* C23: in one invocation the kind that selects the sampling parameters is
\* the kind whose template build_messages used for the user message; the
\* kind has an entry in the table, and the parameters are that entry.
C23_ParamsKindIsTemplateKind ==
    tx_pc = "prepared" =>
      /\ tx_out[1].game_name = KindOfTemplate[tx_out[1].template]
      /\ tx_out[1].game_name \in DOMAIN GENERATION_PARAMS
      /\ tx_out[1].generation_params = GENERATION_PARAMS[tx_out[1].game_name]
      /\ tx_out[1].template = "three_player_ipd"
           <=> tx_out[1].generation_params.extra_body # None

\* a Codenames observation that the third detector matches too
C23_Witness ==
    /\ tx_pc = "prepared"
    /\ tx_out[1].template = "codenames"
    /\ tx_out[1].game_name = "Codenames"
    /\ is_three_player_ipd(
         remove_trailing_spaces_keep_blank_lines(observation))
    /\ tx_out[1].generation_params.extra_body = None

\* the submissions that are of the team, by their place among the
\* submissions subs of the text
OwnSubmissions(text, subs, team) ==
    IF team = None THEN {}
    ELSE { i \in 1..Len(subs) : SubmittedTeam(text, subs[i]) = team[1] }

\* the submission the clue is to come from: the latest of the own team if
\* there is one, else the latest of all
ClueSubmission(subs, own) ==
    subs[IF own # {} THEN SetMax(own) ELSE Len(subs)]

\* C24: the clue word and number come from the latest "submitted [word n]"
\* line of the player's own team when the role line names the team and
\* that team has submitted, even if the other team submitted later; else
\* from the latest submission of all; the team of the role line is kept;
\* without a submission both clue fields are absent.
C24_ClueSelection ==
    tx_pc = "codenames_context" =>
      LET team == PromptTeam(observation)
          subs == FindIter(SubmittedPattern, observation)
          from == ClueSubmission(subs,
                                 OwnSubmissions(observation, subs, team))
      IN /\ team # None => tx_out[1].team = team
         /\ subs = <<>>
              => /\ tx_out[1].last_clue_word = None
                 /\ tx_out[1].last_clue_number = None
         /\ subs # <<>>
              => /\ tx_out[1].last_clue_word
                      = Some(Lower(Group(observation, from, 17)))
                 /\ tx_out[1].last_clue_number
                      = Some(int(Group(observation, from, 19)))

\* the own team has submitted and the other team has submitted after it
C24_Witness ==
    /\ tx_pc = "codenames_context"
    /\ PromptTeam(observation) = Some("Red")
    /\ Len(FindIter(SubmittedPattern, observation)) = 2
    /\ OwnSubmissions(observation, FindIter(SubmittedPattern, observation),
                      Some("Red")) = {1}
    /\ tx_out[1] = [team |-> Some("Red"),
                    last_clue_word |-> Some(<<"ocean">>),
                    last_clue_number |-> Some(2)]

\* the team is not known and the clue is the latest of all
C24_WitnessUnknownTeam ==
    /\ tx_pc = "codenames_context"
    /\ PromptTeam(observation) = None
    /\ Len(FindIter(SubmittedPattern, observation)) = 2
    /\ tx_out[1].last_clue_word = Some(<<"fire">>)

----------------------------------------------------------------------------
\* Properties of main (checked under SpecMain)

\* C18: the first termination signal sets the stop flag and kills no
\* worker; the second kills every worker that is alive and ends main at
\* once (no join is waited for); the stop flag is never cleared.
C18_Step ==
    /\ stop_event => stop_event'
    /\ (termination_signals_received = 0
          /\ termination_signals_received' = 1)
       => /\ stop_event'
          /\ pc' = pc
          /\ main_pc' = main_pc
    /\ (termination_signals_received = 1
          /\ termination_signals_received' = 2)
       => /\ \A w \in AllTracks : IsAlive(w) => pc'[w] = "killed"
          /\ main_pc' = "forced_exit"

C18_SignalEscalation == [][C18_Step]_vars

----------------------------------------------------------------------------
\* Properties of In2AIMindGamesAgent.__call__ (checked under SpecReq)

\* the text between the first and the last character of a text that are
\* not whitespace
Trimmed(text) ==
    LET inner == { i \in 1..Len(text) : text[i] \notin Whitespace }
    IN IF inner = {} THEN <<>>
       ELSE SubSeq(text, SetMin(inner), SetMax(inner))

\* C19: the Action of every AgentResponse has action_parsing_failed =
\* FALSE and an action string that is not None and is the completion with
\* the whitespace around it removed.
C19_ActionOfResponse ==
    agent_response # None =>
        LET r == agent_response[1]
        IN /\ r.action.action_parsing_failed = FALSE
           /\ r.action.action # None
           /\ r.completion # None
           /\ r.action.action[1] = Trimmed(r.completion[1])

\* a completion with whitespace around it
C19_Witness ==
    /\ rq_pc = "responded"
    /\ agent_response # None
    /\ agent_response[1].action.action # agent_response[1].completion
    /\ agent_response[1].action.action[1] # <<>>

----------------------------------------------------------------------------
\* Properties of play_game (checked under SpecGame)

\* the log holds one step for each turn of the environment, in turn order
StepsFollowTurns ==
    /\ Len(log_steps) = IF gs_pc = "append" THEN Len(env_turns) - 1
                        ELSE Len(env_turns)
    /\ \A i \in 1..Len(log_steps) :
         log_steps[i] = [player_id |-> env_turns[i], step_info |-> i]

C20_State ==
    /\ StepsFollowTurns
    /\ env_closed <= 1
    /\ env_closed = 1 => done
    /\ log_end # None => env_closed = 1
    /\ log_writes <= 1
    /\ log_writes = 1 =>
         /\ log_end # None
         /\ log_file = Some([steps |-> log_steps, end |-> log_end])
    /\ gs_pc = "returned" => env_closed = 1 /\ log_writes = 1
    /\ (gs_pc = "raised" /\ raised_at # Some("dump")) =>
         log_file = None /\ log_writes = 0

C20_Step ==
    /\ \/ log_steps' = log_steps
       \/ /\ Len(log_steps') = Len(log_steps) + 1
          /\ SubSeq(log_steps', 1, Len(log_steps)) = log_steps
          /\ Len(env_turns) = Len(log_steps')
    /\ env_turns' # env_turns => log_steps' = log_steps
    /\ env_closed' # env_closed => done /\ log_end = None
    /\ log_end' # log_end => env_closed = 1 /\ log_writes = 0
    /\ log_writes' # log_writes => log_end # None /\ log_end' = log_end

C20_WitnessRaised ==
    /\ gs_pc = "raised"
    /\ Len(log_steps) = 1
    /\ log_file = None

====
